---- MODULE Spec2Model ----
(***************************************************************************)
(* Session logger (src/logger.py): a process-wide serial, an append-only  *)
(* log file of header blocks and message lines, mirrored standard output   *)
(* and plot files named by the serial.                                     *)
(*                                                                         *)
(* Text is kept as text: a serial, a timestamp, a banner and a message     *)
(* line are strings, the log file and standard output are sequences of     *)
(* newline-terminated lines, the plot directory maps a file name to the    *)
(* figure last saved under it.                                             *)
(***************************************************************************)
EXTENDS Integers, Sequences, FiniteSets, TLC

VARIABLES
    SERIAL,     \* the module global SERIAL (None or the active serial)
    file,       \* lines of LOG_PATH (log.txt)
    stdout,     \* lines printed so far
    plots,      \* PLOT_PATH: file name -> figure saved
    now,        \* the wall clock read by datetime.now()
    ticks,      \* milliseconds the clock has advanced
    hist,       \* the calls made so far, one record per call
    file0,      \* the log file as the process found it
    probe       \* a pair of instants and their serials (serial generator alone)

vars == <<SERIAL, file, stdout, plots, now, ticks, hist, file0, probe>>

(***************************************************************************)
(* Bounds                                                                  *)
(***************************************************************************)
MaxCalls == 3
MaxTick == 1

(***************************************************************************)
(* Text helpers                                                            *)
(***************************************************************************)
Digit == <<"0", "1", "2", "3", "4", "5", "6", "7", "8", "9">>

RECURSIVE Pow10(_)
Pow10(w) == IF w = 0 THEN 1 ELSE 10 * Pow10(w - 1)

\* the zero-padded decimal digits of n, w wide (strftime's %m, %d, %H, ... fields)
Zfill(n, w) == [i \in 1..w |-> (n \div Pow10(w - i)) % 10]

RECURSIVE Join(_)
Join(ds) == IF ds = <<>> THEN "" ELSE Digit[Head(ds) + 1] \o Join(Tail(ds))

RECURSIVE Rep(_, _)
Rep(s, n) == IF n = 0 THEN "" ELSE s \o Rep(s, n - 1)

BannerWidth == 80
banner == Rep("=", BannerWidth)

None == "None"

(***************************************************************************)
(* Serialization                                                           *)
(***************************************************************************)
\* strftime('%y%m%d%H%M%S%f'): two-digit year, then fixed-width fields, six
\* digits of microseconds
strftime_serial(dt) ==
    Zfill(dt.year % 100, 2) \o Zfill(dt.month, 2) \o Zfill(dt.day, 2)
        \o Zfill(dt.hour, 2) \o Zfill(dt.minute, 2) \o Zfill(dt.second, 2)
        \o Zfill(dt.microsecond, 6)

\* a plausible slip: day-month-year field order
serialize_digits_dmy(dt) ==
    LET s == Zfill(dt.day, 2) \o Zfill(dt.month, 2) \o Zfill(dt.year % 100, 2)
                \o Zfill(dt.hour, 2) \o Zfill(dt.minute, 2) \o Zfill(dt.second, 2)
                \o Zfill(dt.microsecond, 6)
    IN  SubSeq(s, 1, Len(s) - 3)

\* _serialize() before the digits are joined to a str: [:-3] drops the last
\* three characters, leaving millisecond precision
serialize_digits(dt) ==
    LET s == strftime_serial(dt)
    IN  SubSeq(s, 1, Len(s) - 3)

_serialize(dt) == Join(serialize_digits(dt))

\* strftime("%m/%d/%Y %H:%M:%S") of the header
strftime_header(dt) ==
    Join(Zfill(dt.month, 2)) \o "/" \o Join(Zfill(dt.day, 2)) \o "/"
        \o Join(Zfill(dt.year, 4)) \o " " \o Join(Zfill(dt.hour, 2)) \o ":"
        \o Join(Zfill(dt.minute, 2)) \o ":" \o Join(Zfill(dt.second, 2))

(***************************************************************************)
(* The wall clock                                                          *)
(***************************************************************************)
IsLeap(y) == (y % 4 = 0) /\ ((y % 100 # 0) \/ (y % 400 = 0))

DaysInMonth(y, m) ==
    IF m = 2 THEN (IF IsLeap(y) THEN 29 ELSE 28)
    ELSE IF m \in {4, 6, 9, 11} THEN 30 ELSE 31

MicrosPerMilli == 1000
MicrosPerSecond == 1000000

\* the clock one millisecond later
NextMs(dt) ==
    IF dt.microsecond + MicrosPerMilli < MicrosPerSecond
    THEN [dt EXCEPT !.microsecond = @ + MicrosPerMilli]
    ELSE LET u == dt.microsecond + MicrosPerMilli - MicrosPerSecond
         IN  IF dt.second < 59
             THEN [dt EXCEPT !.microsecond = u, !.second = @ + 1]
             ELSE IF dt.minute < 59
             THEN [dt EXCEPT !.microsecond = u, !.second = 0, !.minute = @ + 1]
             ELSE IF dt.hour < 23
             THEN [dt EXCEPT !.microsecond = u, !.second = 0, !.minute = 0,
                             !.hour = @ + 1]
             ELSE IF dt.day < DaysInMonth(dt.year, dt.month)
             THEN [dt EXCEPT !.microsecond = u, !.second = 0, !.minute = 0,
                             !.hour = 0, !.day = @ + 1]
             ELSE IF dt.month < 12
             THEN [dt EXCEPT !.microsecond = u, !.second = 0, !.minute = 0,
                             !.hour = 0, !.day = 1, !.month = @ + 1]
             ELSE [dt EXCEPT !.microsecond = u, !.second = 0, !.minute = 0,
                             !.hour = 0, !.day = 1, !.month = 1, !.year = @ + 1]

(***************************************************************************)
(* Messages and figures handed to the logger                               *)
(***************************************************************************)
\* A message object: str is str(message), callable tells callable(message),
\* src is dill.source.getsource(message) for a callable.
MsgString  == [kind |-> "str",  str |-> "x", callable |-> FALSE, src |-> ""]
MsgDefault == [kind |-> "str",  str |-> "",  callable |-> FALSE, src |-> ""]
MsgNumber  == [kind |-> "int",  str |-> "7", callable |-> FALSE, src |-> ""]
MsgFunc    == [kind |-> "func", str |-> "<function f at 0x7f>", callable |-> TRUE,
               src |-> " def f(): return 1 "]
Messages == {MsgString, MsgDefault, MsgNumber, MsgFunc}
NoMsg == [kind |-> "none", str |-> "", callable |-> FALSE, src |-> ""]

\* the figure that is current in the plotting library when logfig is called
Figures == {"figA", "figB"}
NoFig == "nofig"

\* where a call's I/O fails: nowhere, or at gen_serial's open(LOG_PATH, 'a'),
\* the one failure that finds the process with a half-made change
FailPoints == {"none", "header"}

(***************************************************************************)
(* The handlers, as functions of the process state                         *)
(*   p = [SERIAL, file, stdout, plots, raised, gen, stamp]                 *)
(* raised: an exception left the call; gen: gen_serial ran in the call;    *)
(* stamp: the timestamp line the call wrote.  t holds the readings of the   *)
(* clock the call makes: t.serial in _serialize, t.header in _write_header. *)
(***************************************************************************)
\* str.strip() of the source text: the model's source texts carry one blank
\* at each end or none
strip(s) == IF s = " def f(): return 1 " THEN "def f(): return 1" ELSE s

_get_func_source(func) == strip(func.src)

\* a plausible slip: the padding written whatever the size of the file
write_header_always_pad(p, t) ==
    [p EXCEPT !.file = @ \o <<"", "">>
                         \o <<banner, p.SERIAL, strftime_header(t), banner>>,
              !.stamp = strftime_header(t)]

_write_header(p, t) ==
    LET pad == IF Len(p.file) > 0 THEN <<"", "">> ELSE <<>>
    IN  [p EXCEPT !.file = @ \o pad
                             \o <<banner, p.SERIAL, strftime_header(t), banner>>,
                  !.stamp = strftime_header(t)]

gen_serial(p, t, fail) ==
    LET p1 == [p EXCEPT !.SERIAL = _serialize(t.serial), !.gen = TRUE]
    IN  IF fail = "header"
        THEN [p1 EXCEPT !.raised = TRUE]
        ELSE _write_header(p1, t.header)

\* a plausible slip: a message equal to the last line of the file is dropped
logsilent_dedup(p, message, t, fail) ==
    LET p1 == IF p.SERIAL = None THEN gen_serial(p, t, fail) ELSE p
        text == IF message.callable THEN _get_func_source(message) ELSE message.str
    IN  IF p1.raised THEN p1
        ELSE IF Len(p1.file) > 0 /\ p1.file[Len(p1.file)] = text THEN p1
        ELSE [p1 EXCEPT !.file = Append(@, text)]

\* a plausible slip: a leftover debugging print
logsilent_prints(p, message, t, fail) ==
    LET p1 == IF p.SERIAL = None THEN gen_serial(p, t, fail) ELSE p
        text == IF message.callable THEN _get_func_source(message) ELSE message.str
    IN  IF p1.raised THEN p1
        ELSE [p1 EXCEPT !.file = Append(@, text), !.stdout = Append(@, text)]

logsilent(p, message, t, fail) ==
    LET p1 == IF p.SERIAL = None THEN gen_serial(p, t, fail) ELSE p
        \* the rebinding of message is local to logsilent
        text == IF message.callable THEN _get_func_source(message) ELSE message.str
    IN  IF p1.raised THEN p1
        ELSE [p1 EXCEPT !.file = Append(@, text)]

\* a plausible slip: the message printed before and after it is saved
log_prints_twice(p, message, t, fail) ==
    LET p1 == logsilent(p, message, t, fail)
    IN  IF p1.raised THEN p1
        ELSE [p1 EXCEPT !.stdout = @ \o <<message.str, message.str>>]

log(p, message, t, fail) ==
    LET p1 == logsilent(p, message, t, fail)
    IN  IF p1.raised THEN p1
        \* print(message): the caller's message, str() of it
        ELSE [p1 EXCEPT !.stdout = Append(@, message.str)]

PlotExt == ".pdf"

savefig(pl, fname, fig) ==
    [n \in (DOMAIN pl) \cup {fname} |-> IF n = fname THEN fig ELSE pl[n]]

\* a plausible slip: a fresh serial for every figure
logfig_always_gen(p, fig, t, fail) ==
    LET p1 == gen_serial(p, t, fail)
    IN  IF p1.raised THEN p1
        ELSE [p1 EXCEPT !.plots = savefig(@, p1.SERIAL \o PlotExt, fig)]

logfig(p, fig, t, fail) ==
    LET p1 == IF p.SERIAL = None THEN gen_serial(p, t, fail) ELSE p
    IN  IF p1.raised THEN p1
        ELSE [p1 EXCEPT !.plots = savefig(@, p1.SERIAL \o PlotExt, fig)]

\* plt.show() blocks on the display and touches nothing the logger keeps
showfig(p, fig, t, fail) == logfig(p, fig, t, fail)

\* the str that logfunc hands to log
SourceMessage(func) ==
    [kind |-> "str", str |-> _get_func_source(func), callable |-> FALSE, src |-> ""]

logfunc(p, func, t, fail) == log(p, SourceMessage(func), t, fail)

(***************************************************************************)
(* State machine                                                           *)
(***************************************************************************)
Proc == [SERIAL |-> SERIAL, file |-> file, stdout |-> stdout, plots |-> plots,
         raised |-> FALSE, gen |-> FALSE, stamp |-> ""]

\* the readings of the clock a call may make: the header's reading is the
\* serial's, or a millisecond later
Readings ==
    { [serial |-> now, header |-> h] :
          h \in {now} \cup (IF ticks < MaxTick THEN {NextMs(now)} ELSE {}) }

\* the call's effect r on the process, and its record in the history
Call(op, message, fig, fail, t, r) ==
    /\ Len(hist) < MaxCalls
    \* the clock moves inside the call only where the call reads it twice
    /\ t.header # now => (r.gen /\ ~r.raised)
    /\ SERIAL' = r.SERIAL
    /\ file' = r.file
    /\ stdout' = r.stdout
    /\ plots' = r.plots
    /\ hist' = Append(hist, [op |-> op, msg |-> message, fig |-> fig, fail |-> fail,
                             raised |-> r.raised, gen |-> r.gen,
                             serial |-> r.SERIAL, stamp |-> r.stamp])
    /\ now' = t.header
    /\ ticks' = IF t.header = now THEN ticks ELSE ticks + 1
    /\ UNCHANGED <<file0, probe>>

\* a call fails only at a point it passes
CanFail(fail, op) == fail = "header" => (op = "gen_serial" \/ SERIAL = None)

NewSession ==
    \E fail \in FailPoints, t \in Readings :
        /\ CanFail(fail, "gen_serial")
        /\ Call("gen_serial", NoMsg, NoFig, fail, t, gen_serial(Proc, t, fail))

Log ==
    \E message \in Messages, fail \in FailPoints, t \in Readings :
        /\ CanFail(fail, "log")
        /\ Call("log", message, NoFig, fail, t, log(Proc, message, t, fail))

LogSilent ==
    \E message \in Messages, fail \in FailPoints, t \in Readings :
        /\ CanFail(fail, "logsilent")
        /\ Call("logsilent", message, NoFig, fail, t, logsilent(Proc, message, t, fail))

LogFig ==
    \E fig \in Figures, fail \in FailPoints, t \in Readings :
        /\ CanFail(fail, "logfig")
        /\ Call("logfig", NoMsg, fig, fail, t, logfig(Proc, fig, t, fail))

LogFunc ==
    \E func \in {m \in Messages : m.callable}, fail \in FailPoints, t \in Readings :
        /\ CanFail(fail, "logfunc")
        /\ Call("logfunc", func, NoFig, fail, t, logfunc(Proc, func, t, fail))

ShowFig ==
    \E fig \in Figures, fail \in FailPoints, t \in Readings :
        /\ CanFail(fail, "showfig")
        /\ Call("showfig", NoMsg, fig, fail, t, showfig(Proc, fig, t, fail))

\* a millisecond passes between two calls
Tick ==
    /\ ticks < MaxTick
    /\ now' = NextMs(now)
    /\ ticks' = ticks + 1
    /\ UNCHANGED <<SERIAL, file, stdout, plots, hist, file0, probe>>

\* the log left by an earlier run of the program
OldLog == <<banner, "240101120000000", "01/01/2024 12:00:00", banner, "old">>

StartClock == [year |-> 2024, month |-> 2, day |-> 29, hour |-> 23, minute |-> 59,
               second |-> 59, microsecond |-> 999250]

NoProbe == [t1 |-> StartClock, t2 |-> StartClock, s1 |-> <<>>, s2 |-> <<>>,
            done |-> FALSE]

Init ==
    /\ SERIAL = None
    /\ file \in {<<>>, OldLog}
    /\ file0 = file
    /\ stdout = <<>>
    /\ plots = <<>>
    /\ now = StartClock
    /\ ticks = 0
    /\ hist = <<>>
    /\ probe = NoProbe

Next == NewSession \/ Log \/ LogSilent \/ LogFunc \/ LogFig \/ ShowFig \/ Tick

Spec == Init /\ [][Next]_vars

(***************************************************************************)
(* The serial generator alone: two instants of the wall clock and the      *)
(* serials _serialize makes of them                                        *)
(***************************************************************************)
ProbeYears == {2024, 2099, 2100}
ProbeDates == {<<1, 1>>, <<9, 30>>, <<10, 1>>, <<12, 31>>}
ProbeTimes == {<<0, 0, 0>>, <<9, 59, 59>>, <<23, 59, 59>>}
ProbeMicros == {0, 999, 1000, 999999}

Instants ==
    { [year |-> y, month |-> d[1], day |-> d[2], hour |-> h[1], minute |-> h[2],
       second |-> h[3], microsecond |-> u] :
          y \in ProbeYears, d \in ProbeDates, h \in ProbeTimes, u \in ProbeMicros }

InitSerial ==
    /\ SERIAL = None
    /\ file = <<>>
    /\ file0 = <<>>
    /\ stdout = <<>>
    /\ plots = <<>>
    /\ now = StartClock
    /\ ticks = 0
    /\ hist = <<>>
    /\ probe \in { [t1 |-> a, t2 |-> b, s1 |-> <<>>, s2 |-> <<>>, done |-> FALSE] :
                      a \in Instants, b \in Instants }

Serialize ==
    /\ ~probe.done
    /\ probe' = [probe EXCEPT !.s1 = serialize_digits(probe.t1),
                              !.s2 = serialize_digits(probe.t2),
                              !.done = TRUE]
    /\ UNCHANGED <<SERIAL, file, stdout, plots, now, ticks, hist, file0>>

NextSerial == Serialize

SpecSerial == InitSerial /\ [][NextSerial]_vars

(***************************************************************************)
(* Vocabulary of the properties                                            *)
(***************************************************************************)
\* the step is a call, and e is its record
CallStep == Len(hist') = Len(hist) + 1
LastCall == hist'[Len(hist')]

LogOps == {"log", "logsilent"}
\* the calls that append a message line, and those that write a plot file
MessageOps == LogOps \cup {"logfunc"}
PlotOps == {"logfig", "showfig"}

\* the serials of the header blocks of a log file, read top to bottom: a banner
\* line, the serial, the timestamp, a banner line
RECURSIVE HeaderSerialsFrom(_, _)
HeaderSerialsFrom(f, i) ==
    IF i > Len(f) THEN <<>>
    ELSE IF f[i] = banner /\ i + 3 <= Len(f) /\ f[i + 3] = banner
         THEN <<f[i + 1]>> \o HeaderSerialsFrom(f, i + 4)
         ELSE HeaderSerialsFrom(f, i + 1)

HeaderSerials(f) == HeaderSerialsFrom(f, 1)

LastHeaderSerial(f) ==
    LET hs == HeaderSerials(f)
    IN  IF hs = <<>> THEN None ELSE hs[Len(hs)]

\* the blank-line padding a header gets in a file f
Padding(f) == IF f = <<>> THEN <<>> ELSE <<"", "">>

\* the line a message is expected to leave in the log file
SourceOfF == "def f(): return 1"
MessageLine(m) == IF m.kind = "func" THEN SourceOfF ELSE m.str

NoRaise == \A i \in DOMAIN hist : ~hist[i].raised

(***************************************************************************)
(* C1  Whenever a message line is appended to the log file or a plot file  *)
(* is written, the active serial is set and equals the serial of the most  *)
(* recent header block of the log file.                                    *)
(***************************************************************************)
C1_SerialMatchesLastHeader ==
    [][ (CallStep /\ ~LastCall.raised /\ LastCall.op \in MessageOps \cup PlotOps)
            => (SERIAL' # None /\ SERIAL' = LastHeaderSerial(file')) ]_vars

(***************************************************************************)
(* C2  From a fresh log file and no active serial, while every call        *)
(* returns, the log file is the concatenation in call order of one header  *)
(* block per session start (the first call when it is a log call, and      *)
(* every new_session; each header but the first padded with blank lines)   *)
(* and one message line per log call; every message line lies under the    *)
(* header of the serial that was active when it was logged.                *)
(***************************************************************************)
StartsSession(h, i) == h[i].op = "gen_serial" \/ i = 1

RECURSIVE ExpectedFile(_, _)
ExpectedFile(h, n) ==
    IF n = 0 THEN <<>>
    ELSE LET acc == ExpectedFile(h, n - 1)
             e == h[n]
             head == IF StartsSession(h, n)
                     THEN Padding(acc) \o <<banner, e.serial, e.stamp, banner>>
                     ELSE <<>>
             line == IF e.op \in LogOps THEN <<MessageLine(e.msg)>> ELSE <<>>
         IN  acc \o head \o line

OnlyLogAndSession == \A i \in DOMAIN hist : hist[i].op \in LogOps \cup {"gen_serial"}

C2_FileIsConcatenation ==
    (file0 = <<>> /\ NoRaise /\ OnlyLogAndSession) =>
        /\ file = ExpectedFile(hist, Len(hist))
        /\ \A i \in DOMAIN hist :
              /\ hist[i].gen <=> StartsSession(hist, i)
              /\ hist[i].op \in LogOps =>
                    hist[i].serial = LastHeaderSerial(ExpectedFile(hist, i))

C2_Witness ==
    /\ file0 = <<>> /\ NoRaise /\ Len(hist) = 3
    /\ hist[1].op = "log" /\ hist[2].op = "log" /\ hist[3].op = "gen_serial"
    /\ hist[1].msg = MsgString /\ hist[2].msg = MsgString
    /\ Len(file) = 12

(***************************************************************************)
(* C3  A log call that returns, made when there is no active serial,       *)
(* appends exactly one header block and then the message line, sets the    *)
(* active serial, and prints the message exactly once.                     *)
(***************************************************************************)
C3_LogStartsOneSession ==
    [][ (CallStep /\ LastCall.op = "log" /\ ~LastCall.raised /\ SERIAL = None) =>
            LET k == Len(file) + Len(Padding(file))
            IN  /\ SERIAL' # None
                /\ Len(file') = k + 5
                /\ SubSeq(file', 1, k) = file \o Padding(file)
                /\ file'[k + 1] = banner
                /\ file'[k + 2] = SERIAL'
                /\ file'[k + 3] = strftime_header(now')
                /\ file'[k + 4] = banner
                /\ file'[k + 5] = MessageLine(LastCall.msg)
                /\ Len(HeaderSerials(file')) = Len(HeaderSerials(file)) + 1
                /\ stdout' = Append(stdout, LastCall.msg.str) ]_vars

C3_Witness ==
    /\ Len(hist) = 1 /\ hist[1].op = "log" /\ ~hist[1].raised
    /\ hist[1].msg = MsgString
    /\ file0 = <<>> /\ Len(file) = 5 /\ stdout = <<"x">>

(***************************************************************************)
(* C4  A new_session call that returns appends exactly one header block    *)
(* (banner, serial, timestamp, banner) whose serial is the returned and    *)
(* new active serial, padded with blank lines exactly when the file was    *)
(* not empty, and leaves what was in the file unchanged.                   *)
(***************************************************************************)
C4_NewSessionAppendsHeader ==
    [][ (CallStep /\ LastCall.op = "gen_serial" /\ ~LastCall.raised) =>
            /\ SERIAL' # None
            /\ SERIAL' = LastCall.serial
            /\ file' = file \o Padding(file)
                            \o <<banner, SERIAL', strftime_header(now'), banner>>
            /\ HeaderSerials(file') = HeaderSerials(file) \o <<SERIAL'>> ]_vars

C4_Witness ==
    /\ file0 = <<>> /\ Len(hist) = 2 /\ NoRaise
    /\ hist[1].op = "gen_serial" /\ hist[2].op = "gen_serial"
    /\ Len(file) = 10 /\ file[5] = "" /\ file[6] = ""

(***************************************************************************)
(* C5  save_plot with an active serial S writes the plot file S.pdf and    *)
(* nothing else: the active serial is still S, the log file and standard   *)
(* output are as before, every other plot file is as before; a second      *)
(* save_plot of the session replaces the same file.                        *)
(***************************************************************************)
C5_SavePlotFrame ==
    [][ (CallStep /\ LastCall.op = "logfig" /\ ~LastCall.raised /\ SERIAL # None) =>
            LET fname == SERIAL \o ".pdf"
            IN  /\ SERIAL' = SERIAL
                /\ file' = file
                /\ stdout' = stdout
                /\ DOMAIN plots' = (DOMAIN plots) \cup {fname}
                /\ plots'[fname] = LastCall.fig
                /\ \A n \in (DOMAIN plots) \ {fname} : plots'[n] = plots[n] ]_vars

C5_Witness ==
    /\ Len(hist) = 3 /\ NoRaise
    /\ hist[1].op = "gen_serial"
    /\ hist[2].op = "logfig" /\ hist[2].fig = "figA"
    /\ hist[3].op = "logfig" /\ hist[3].fig = "figB"
    /\ SERIAL = hist[1].serial
    /\ DOMAIN plots = {SERIAL \o ".pdf"}
    /\ plots[SERIAL \o ".pdf"] = "figB"

(***************************************************************************)
(* C6  log_silent leaves standard output as it was, for every message and  *)
(* in every state, and does to the log file and to the active serial what  *)
(* log does with the same message in the same state.                       *)
(***************************************************************************)
C6_LogSilentIsLogWithoutEcho ==
    [][ (CallStep /\ LastCall.op = "logsilent") =>
            LET t == [serial |-> now, header |-> now']
                r == log(Proc, LastCall.msg, t, LastCall.fail)
            IN  /\ stdout' = stdout
                /\ file' = r.file
                /\ SERIAL' = r.SERIAL
                /\ LastCall.raised = r.raised ]_vars

C6_Witness ==
    /\ Len(hist) = 1 /\ hist[1].op = "logsilent" /\ ~hist[1].raised
    /\ hist[1].msg = MsgFunc /\ hist[1].gen
    /\ stdout = <<>> /\ Len(file) >= 5 /\ file[Len(file)] = SourceOfF

(***************************************************************************)
(* C7  Serials of two readings of the wall clock at least one millisecond  *)
(* apart sort, as strings, in the order of the readings.                   *)
(***************************************************************************)
DaysBeforeYear(y) ==
    (y - 1) * 365 + ((y - 1) \div 4) - ((y - 1) \div 100) + ((y - 1) \div 400)

RECURSIVE DaysBeforeMonth(_, _)
DaysBeforeMonth(y, m) ==
    IF m = 1 THEN 0 ELSE DaysBeforeMonth(y, m - 1) + DaysInMonth(y, m - 1)

Ordinal(dt) == DaysBeforeYear(dt.year) + DaysBeforeMonth(dt.year, dt.month) + dt.day

SecondOfDay(dt) == dt.hour * 3600 + dt.minute * 60 + dt.second

\* b - a, as days, seconds and microseconds, is at least one millisecond
AtLeastOneMsLater(a, b) ==
    LET du0 == b.microsecond - a.microsecond
        ds0 == SecondOfDay(b) - SecondOfDay(a) - (IF du0 < 0 THEN 1 ELSE 0)
        dd == Ordinal(b) - Ordinal(a) - (IF ds0 < 0 THEN 1 ELSE 0)
        du == IF du0 < 0 THEN du0 + 1000000 ELSE du0
        ds == IF ds0 < 0 THEN ds0 + 86400 ELSE ds0
    IN  dd > 0 \/ (dd = 0 /\ (ds > 0 \/ du >= 1000))

\* lexicographic order of two digit strings
LexLess(s, t) ==
    \E i \in 1..Len(s) :
        /\ i <= Len(t)
        /\ s[i] < t[i]
        /\ \A j \in 1..(i - 1) : s[j] = t[j]

Century(dt) == dt.year \div 100

C8_SerialsUnique ==
    \A i, j \in DOMAIN hist :
        (i < j /\ hist[i].gen /\ hist[j].gen) => hist[i].serial # hist[j].serial

(***************************************************************************)
(* C9  A new_session call that raises because the header cannot be         *)
(* appended leaves the active serial as it was.                            *)
(***************************************************************************)
C9_FailedSessionKeepsSerial ==
    [][ (CallStep /\ LastCall.op = "gen_serial" /\ LastCall.raised)
            => SERIAL' = SERIAL ]_vars

(***************************************************************************)
(* C10  What log prints is the text of the message line it appends to the  *)
(* log file, for every message.                                            *)
(***************************************************************************)
C10_PrintedIsLogged ==
    [][ (CallStep /\ LastCall.op = "log" /\ ~LastCall.raised)
            => stdout'[Len(stdout')] = file'[Len(file')] ]_vars

====
